---- MODULE Spec2Model ----
(***************************************************************************)
(* Model of math_pdf_quiz_v2.py: the session state kept in                 *)
(* st.session_state, the answer key loaded at start-up, and one action per *)
(* script run.  A script run is started either by a widget event (a button *)
(* that returns True, an edited text input) or by st.rerun(); the run      *)
(* executes the router and the render function of the current phase.       *)
(* Text is modelled as a sequence of one-character strings so that         *)
(* str.strip() and the number-to-text conversions are computed.            *)
(***************************************************************************)
EXTENDS Integers, Sequences, FiniteSets, TLC

VARIABLES answer_df, phase, current_id_idx, start_time, problem_start_time,
          answers, graded, user_name, widget, rerun, event, prev_event, now,
          halted, download, csv_env, call

vars == <<answer_df, phase, current_id_idx, start_time, problem_start_time,
          answers, graded, user_name, widget, rerun, event, prev_event, now,
          halted, download, csv_env, call>>

\* Largest value of the wall clock (time.time()) explored.
MaxTime == 1

-----------------------------------------------------------------------------
\* Text helpers

Digits == <<"0", "1", "2", "3", "4", "5", "6", "7", "8", "9">>

\* Characters removed by str.strip() with no argument.
Whitespace == {" ", "\t", "\n"}

RECURSIVE IntToStr(_)
\* str(n) for an integer n.
IntToStr(n) ==
    IF n < 0 THEN <<"-">> \o IntToStr(0 - n)
    ELSE IF n < 10 THEN <<Digits[n + 1]>>
    ELSE IntToStr(n \div 10) \o <<Digits[(n % 10) + 1]>>

RECURSIVE LStrip(_)
LStrip(s) ==
    IF s # <<>> /\ Head(s) \in Whitespace THEN LStrip(Tail(s)) ELSE s

RECURSIVE RStrip(_)
RStrip(s) ==
    IF s # <<>> /\ s[Len(s)] \in Whitespace
    THEN RStrip(SubSeq(s, 1, Len(s) - 1))
    ELSE s

\* str.strip()
Strip(s) == RStrip(LStrip(s))

-----------------------------------------------------------------------------
\* Cells of the CSV as pandas delivers them: a missing value, a float
\* (whole + tenths/10), an integer or a text.

NaCell == [t |-> "na", whole |-> 0, tenths |-> 0, s |-> <<>>]
FloatCell(w, f) == [t |-> "float", whole |-> w, tenths |-> f, s |-> <<>>]
IntCell(n) == [t |-> "int", whole |-> n, tenths |-> 0, s |-> <<>>]
StrCell(str) == [t |-> "str", whole |-> 0, tenths |-> 0, s |-> str]

\* as_str that keeps the fractional part of every float.
as_str_keep_fraction(x) ==
    IF x.t = "na" THEN <<>>
    ELSE IF x.t = "float"
         THEN IntToStr(x.whole) \o <<".">> \o <<Digits[x.tenths + 1]>>
    ELSE IF x.t = "int" THEN IntToStr(x.whole)
    ELSE x.s

as_str(x) ==
    IF x.t = "na" THEN <<>>
    ELSE IF x.t = "float" /\ x.tenths = 0 THEN IntToStr(x.whole)
    ELSE IF x.t = "float"
         THEN IntToStr(x.whole) \o <<".">> \o <<Digits[x.tenths + 1]>>
    ELSE IF x.t = "int" THEN IntToStr(x.whole)
    ELSE x.s

Row(id, sub, ans, level, title) ==
    [ID |-> id, sub |-> sub, ans |-> ans, level |-> level, title |-> title]

\* Answer keys explored: one id with two sub-questions (answers 5 and 10);
\* two ids, the first storing its answer as the float 3.0 and the second as
\* a text with a leading blank; two ids, the first with a missing answer
\* and the second with the float 2.5.
RawTables ==
    { { Row(1, "a", IntCell(5), IntCell(1), StrCell(<<"T">>)),
        Row(1, "b", IntCell(10), IntCell(1), StrCell(<<"T">>)) },
      { Row(7, "a", FloatCell(3, 0), FloatCell(2, 0), NaCell),
        Row(9, "a", StrCell(<<" ", "5">>), NaCell, StrCell(<<"U">>)) },
      { Row(2, "a", NaCell, NaCell, NaCell),
        Row(3, "a", FloatCell(2, 5), FloatCell(1, 5), NaCell) } }

\* Texts a user types into an answer field.
UserInputs ==
    { <<"5">>, <<"1", "1">>, <<"3">>, <<"3", ".", "0">>, <<" ", "5", " ">> }

\* Names a user types on the result screen.
UserNames == { <<>>, <<"A">>, <<"B", "c">> }

\* Column normalisation at load time: the answer column becomes text.
NormalizeDf(raw) ==
    { [r EXCEPT !.ans = StrCell(as_str(r.ans))] : r \in raw }

-----------------------------------------------------------------------------
\* Lookup tables derived from the answer key

RECURSIVE SortedSeq(_)
SortedSeq(S) ==
    IF S = {} THEN <<>>
    ELSE LET m == CHOOSE x \in S : \A y \in S : x <= y
         IN <<m>> \o SortedSeq(S \ {m})

\* str.isdigit() on the ID column: a negative number stands for an ID cell
\* that is not a digit string.
IsDigitId(id) == id >= 0

available_ids == SortedSeq({ r.ID : r \in { q \in answer_df : IsDigitId(q.ID) } })

\* The value get_current_id returns for an index out of range; ids are
\* non-negative.
None == 0 - 1

get_current_id ==
    IF current_id_idx < 0 \/ current_id_idx >= Len(available_ids)
    THEN None
    ELSE available_ids[current_id_idx + 1]

rows_for_id(i) == { r \in answer_df : r.ID = i }

\* "more ids remain" test that is off by one.
HasNext_off_by_one == current_id_idx + 1 <= Len(available_ids)

\* The test of render_explain: more ids remain after the current one.
HasNext == current_id_idx + 1 < Len(available_ids)

-----------------------------------------------------------------------------
\* Dictionaries

EmptyDict == [k \in {} |-> 0]

Get(d, k, default) == IF k \in DOMAIN d THEN d[k] ELSE default

Put(d, k, v) == [x \in (DOMAIN d) \cup {k} |-> IF x = k THEN v ELSE d[x]]

Key(i, sub) == <<i, sub>>

\* Widget values the text inputs of the Solution screen of id i start with.
DefaultWidgets(i, ans) ==
    [sub \in { r.sub : r \in rows_for_id(i) } |->
        Get(Get(ans, Key(i, sub), EmptyDict), "inp", <<>>)]

\* An input loop that rebuilds the dictionary from the current rows only.
RenderInputs_only_current(i, ans, w) ==
    [k \in { Key(i, r.sub) : r \in rows_for_id(i) } |->
        IF k[2] \in DOMAIN w
        THEN Put(Get(ans, k, EmptyDict), "inp", w[k[2]])
        ELSE ans[k]]

\* The input loop of render_solution: every row's record takes the value
\* of its text input; records of other keys, and other fields, are kept.
RenderInputs(i, ans, w) ==
    [k \in (DOMAIN ans) \cup { Key(i, r.sub) : r \in rows_for_id(i) } |->
        IF k[1] = i /\ k[2] \in DOMAIN w
        THEN Put(Get(ans, k, EmptyDict), "inp", w[k[2]])
        ELSE ans[k]]

Correct == "correct"
Incorrect == "incorrect"

\* Grading that canonicalises nothing and compares the raw texts.
GradeRecord_no_strip(r, inp, per_elapsed, total_elapsed) ==
    [inp |-> inp,
     correct |-> as_str(r.ans),
     verdict |-> IF inp = as_str(r.ans) THEN Correct ELSE Incorrect,
     per_sec |-> per_elapsed,
     total_sec |-> total_elapsed,
     level |-> as_str(r.level),
     title |-> as_str(r.title)]

\* Grading that compares the text as typed and strips it only for storing.
GradeRecord_compare_raw(r, inp, per_elapsed, total_elapsed) ==
    LET user_inp == Strip(inp)
        correct == Strip(as_str(r.ans))
    IN [inp |-> user_inp,
        correct |-> correct,
        verdict |-> IF inp = correct THEN Correct ELSE Incorrect,
        per_sec |-> per_elapsed,
        total_sec |-> total_elapsed,
        level |-> as_str(r.level),
        title |-> as_str(r.title)]

\* The record written for one row by the grading loop.
GradeRecord(r, inp, per_elapsed, total_elapsed) ==
    LET user_inp == Strip(inp)
        correct == Strip(as_str(r.ans))
    IN [inp |-> user_inp,
        correct |-> correct,
        verdict |-> IF user_inp = correct THEN Correct ELSE Incorrect,
        per_sec |-> per_elapsed,
        total_sec |-> total_elapsed,
        level |-> as_str(r.level),
        title |-> as_str(r.title)]

\* The grading loop of render_solution over the rows of id i.
GradeAll(i, ans, per_elapsed, total_elapsed) ==
    [k \in DOMAIN ans |->
        IF k[1] = i /\ \E r \in rows_for_id(i) : r.sub = k[2]
        THEN LET r == CHOOSE q \in rows_for_id(i) : q.sub = k[2]
             IN GradeRecord(r, Get(ans[k], "inp", <<>>),
                            per_elapsed, total_elapsed)
        ELSE ans[k]]

NoDownload == <<>>

\* File name of the result CSV offered by render_end: the name, the infix
\* (written here in Latin letters), the timestamp and the extension; the
\* timestamp is written as the decimal text of the clock value.
ResultFileName(name, ts) ==
    name \o <<"_", "r", "e", "s", "u", "l", "t", "_">> \o IntToStr(ts)
         \o <<".", "c", "s", "v">>

\* render_end offers the download only for a non-empty name.
DownloadFor(name, ts) ==
    IF name # <<>> THEN ResultFileName(name, ts) ELSE NoDownload

\* The working directory and the utility call while the quiz session runs:
\* the answer key is loaded and no utility function is being applied.
NoFiles == [paths |-> <<>>, parses |-> {}]

NoCall == [fn |-> "none", arg |-> 0, out |-> <<>>]

-----------------------------------------------------------------------------
\* Session defaults (ss.setdefault ...) at clock value t.

Init ==
    /\ \E raw \in RawTables : answer_df = NormalizeDf(raw)
    /\ phase = "problem"
    /\ current_id_idx = 0
    /\ now = 0
    /\ start_time = 0
    /\ problem_start_time = 0
    /\ answers = EmptyDict
    /\ graded = FALSE
    /\ user_name = <<>>
    /\ widget = EmptyDict
    /\ rerun = FALSE
    /\ event = "start"
    /\ prev_event = "start"
    /\ halted = FALSE
    /\ download = NoDownload
    /\ csv_env = NoFiles
    /\ call = NoCall

\* The widget event that started the run, and the one before it.
Fired(e) ==
    /\ event' = e
    /\ prev_event' = event

\* The router: a run with an index out of range stops with an error.
Stopped ==
    /\ halted' = TRUE
    /\ UNCHANGED <<csv_env, call, answer_df, phase, current_id_idx, start_time,
                   problem_start_time, answers, graded, user_name, widget,
                   rerun, event, prev_event, now, download>>

\* The router's test: no problem id at the current index.
RouterStops == get_current_id = None

\* Time passes between two script runs.
Tick ==
    /\ ~halted
    /\ now < MaxTime
    /\ now' = now + 1
    /\ UNCHANGED <<csv_env, call, answer_df, phase, current_id_idx, start_time,
                   problem_start_time, answers, graded, user_name, widget,
                   rerun, event, prev_event, halted, download>>

-----------------------------------------------------------------------------
\* render_problem

problem_answer_entry ==
    /\ ~halted
    /\ ~rerun
    /\ phase = "problem"
    /\ IF RouterStops THEN Stopped ELSE
           /\ phase' = "solution"
           /\ rerun' = TRUE
           /\ Fired("answer_entry")
           /\ download' = NoDownload
           /\ UNCHANGED <<csv_env, call, answer_df, current_id_idx, start_time,
                          problem_start_time, answers, graded, user_name,
                          widget, now>>
           /\ halted' = FALSE

problem_skip ==
    /\ ~halted
    /\ ~rerun
    /\ phase = "problem"
    /\ IF RouterStops THEN Stopped ELSE
           /\ phase' = "explain"
           /\ rerun' = TRUE
           /\ Fired("skip")
           /\ download' = NoDownload
           /\ UNCHANGED <<csv_env, call, answer_df, current_id_idx, start_time,
                          problem_start_time, answers, graded, user_name,
                          widget, now>>
           /\ halted' = FALSE

-----------------------------------------------------------------------------
\* render_solution

\* A text input is edited: the run copies the inputs into the records.
solution_edit ==
    /\ ~halted
    /\ ~rerun
    /\ phase = "solution"
    /\ IF RouterStops THEN Stopped ELSE
           /\ halted' = FALSE
           /\ \E sub \in DOMAIN widget : \E s \in UserInputs \cup {<<>>} :
                   /\ s # widget[sub]
                   /\ widget' = [widget EXCEPT ![sub] = s]
                   /\ answers' = RenderInputs(get_current_id, answers, widget')
                   /\ Fired("edit")
                   /\ rerun' = FALSE
                   /\ download' = NoDownload
                   /\ UNCHANGED <<csv_env, call, answer_df, phase, current_id_idx, start_time,
                                  problem_start_time, graded, user_name, now>>

\* Grading that forgets to raise the graded flag.
solution_grade_effect_no_flag(i) ==
    /\ answers' = GradeAll(i, RenderInputs(i, answers, widget),
                           now - problem_start_time, now - start_time)
    /\ graded' = graded

\* Grading that stores the two elapsed times in each other's place.
solution_grade_effect_swapped_times(i) ==
    /\ answers' = GradeAll(i, RenderInputs(i, answers, widget),
                           now - start_time, now - problem_start_time)
    /\ graded' = TRUE

\* The grading button: input loop, then the grading loop, then graded.
solution_grade_effect(i) ==
    /\ answers' = GradeAll(i, RenderInputs(i, answers, widget),
                           now - problem_start_time, now - start_time)
    /\ graded' = TRUE

\* After grading the stored input is the stripped text; the text input of
\* the next run shows either the text it held or its new default.
solution_grade ==
    /\ ~halted
    /\ ~rerun
    /\ phase = "solution"
    /\ IF RouterStops THEN Stopped ELSE
           /\ solution_grade_effect(get_current_id)
           /\ widget' \in [DOMAIN widget -> UserInputs \cup {<<>>}
                                             \cup { Strip(s) : s \in UserInputs }]
           /\ \A sub \in DOMAIN widget :
                  widget'[sub] \in {widget[sub], Strip(widget[sub])}
           /\ Fired("grade")
           /\ rerun' = FALSE
           /\ download' = NoDownload
           /\ UNCHANGED <<csv_env, call, answer_df, phase, current_id_idx, start_time,
                          problem_start_time, user_name, now>>
           /\ halted' = FALSE

\* A back button that also clears the graded flag.
solution_back_effect_clears_graded ==
    /\ phase' = "problem"
    /\ graded' = FALSE

\* The back button changes the phase only.
solution_back_effect ==
    /\ phase' = "problem"
    /\ graded' = graded

solution_back ==
    /\ ~halted
    /\ ~rerun
    /\ phase = "solution"
    /\ IF RouterStops THEN Stopped ELSE
           /\ answers' = RenderInputs(get_current_id, answers, widget)
           /\ solution_back_effect
           /\ rerun' = TRUE
           /\ Fired("back")
           /\ widget' = EmptyDict
           /\ download' = NoDownload
           /\ UNCHANGED <<csv_env, call, answer_df, current_id_idx, start_time,
                          problem_start_time, user_name, now>>
           /\ halted' = FALSE

solution_to_explain ==
    /\ ~halted
    /\ ~rerun
    /\ phase = "solution"
    /\ IF RouterStops THEN Stopped ELSE
           /\ answers' = RenderInputs(get_current_id, answers, widget)
           /\ phase' = "explain"
           /\ rerun' = TRUE
           /\ Fired("explain")
           /\ widget' = EmptyDict
           /\ download' = NoDownload
           /\ UNCHANGED <<csv_env, call, answer_df, current_id_idx, start_time,
                          problem_start_time, graded, user_name, now>>
           /\ halted' = FALSE

-----------------------------------------------------------------------------
\* render_explain

\* An advance that forgets to increment the index.
explain_next_effect_same_index ==
    /\ current_id_idx' = current_id_idx
    /\ problem_start_time' = now
    /\ phase' = "problem"
    /\ graded' = FALSE

\* An advance that forgets to clear the graded flag.
explain_next_effect_keeps_graded ==
    /\ current_id_idx' = current_id_idx + 1
    /\ problem_start_time' = now
    /\ phase' = "problem"
    /\ graded' = graded

\* An advance that opens the answer entry of the next problem at once.
explain_next_effect_to_solution ==
    /\ current_id_idx' = current_id_idx + 1
    /\ problem_start_time' = now
    /\ phase' = "solution"
    /\ graded' = FALSE

\* An advance that keeps the old problem start time.
explain_next_effect_keep_timer ==
    /\ current_id_idx' = current_id_idx + 1
    /\ problem_start_time' = problem_start_time
    /\ phase' = "problem"
    /\ graded' = FALSE

\* The body of the "next problem" button.
explain_next_effect ==
    /\ current_id_idx' = current_id_idx + 1
    /\ problem_start_time' = now
    /\ phase' = "problem"
    /\ graded' = FALSE

explain_next ==
    /\ ~halted
    /\ ~rerun
    /\ phase = "explain"
    /\ IF RouterStops THEN Stopped ELSE
           /\ HasNext
           /\ explain_next_effect
           /\ rerun' = TRUE
           /\ Fired("next")
           /\ download' = NoDownload
           /\ UNCHANGED <<csv_env, call, answer_df, start_time, answers, user_name, widget,
                          now>>
           /\ halted' = FALSE

-----------------------------------------------------------------------------
\* render_end

\* A render_end that offers the download whatever the name is.
render_end_state_always_offers(name) ==
    /\ user_name' = name
    /\ download' = ResultFileName(name, now)
    /\ UNCHANGED <<phase, current_id_idx, answers, graded>>

\* What a run of render_end leaves: the name typed and the download offered.
render_end_state(name) ==
    /\ user_name' = name
    /\ download' = DownloadFor(name, now)
    /\ UNCHANGED <<phase, current_id_idx, answers, graded>>

end_name_entry ==
    /\ ~halted
    /\ ~rerun
    /\ phase = "end"
    /\ IF RouterStops THEN Stopped ELSE
           /\ halted' = FALSE
           /\ \E name \in UserNames :
                   /\ name # user_name
                   /\ render_end_state(name)
                   /\ Fired("name")
                   /\ rerun' = FALSE
                   /\ UNCHANGED <<csv_env, call, answer_df, start_time, problem_start_time,
                                  widget, now>>

\* A restart that keeps the recorded answers.
session_defaults_keep_answers(t) ==
    /\ phase' = "problem"
    /\ current_id_idx' = 0
    /\ start_time' = t
    /\ problem_start_time' = t
    /\ answers' = answers
    /\ graded' = FALSE
    /\ user_name' = <<>>

\* ss.clear() followed by the setdefault block at clock value t.
session_defaults(t) ==
    /\ phase' = "problem"
    /\ current_id_idx' = 0
    /\ start_time' = t
    /\ problem_start_time' = t
    /\ answers' = EmptyDict
    /\ graded' = FALSE
    /\ user_name' = <<>>

\* The restart button: the callback clears the session state, the run
\* that follows sets the defaults again and renders the Problem screen.
end_restart ==
    /\ ~halted
    /\ ~rerun
    /\ phase = "end"
    /\ session_defaults(now)
    /\ widget' = EmptyDict
    /\ rerun' = FALSE
    /\ Fired("restart")
    /\ download' = NoDownload
    /\ UNCHANGED <<csv_env, call, answer_df, now, halted>>

-----------------------------------------------------------------------------
\* Runs started by st.rerun(): the router renders the current phase.

\* A last Explain screen that wraps around to the first problem.
explain_render_wraps ==
    IF HasNext
    THEN /\ rerun' = FALSE
         /\ UNCHANGED <<phase, current_id_idx>>
    ELSE /\ phase' = "problem"
         /\ current_id_idx' = 0
         /\ rerun' = TRUE

\* render_explain without a button pressed: with more ids the screen is
\* shown; on the last id the phase becomes "end" and the script reruns.
explain_render ==
    IF HasNext
    THEN /\ rerun' = FALSE
         /\ UNCHANGED <<phase, current_id_idx>>
    ELSE /\ phase' = "end"
         /\ rerun' = TRUE
         /\ UNCHANGED current_id_idx

rerun_problem ==
    /\ ~halted
    /\ rerun
    /\ phase = "problem"
    /\ IF RouterStops THEN Stopped ELSE
           /\ rerun' = FALSE
           /\ download' = NoDownload
           /\ UNCHANGED <<csv_env, call, answer_df, phase, current_id_idx, start_time,
                          problem_start_time, answers, graded, user_name,
                          widget, now>>
           /\ Fired("rerun")
           /\ halted' = FALSE

rerun_solution ==
    /\ ~halted
    /\ rerun
    /\ phase = "solution"
    /\ IF RouterStops THEN Stopped ELSE
           /\ widget' = DefaultWidgets(get_current_id, answers)
           /\ answers' = RenderInputs(get_current_id, answers, widget')
           /\ rerun' = FALSE
           /\ download' = NoDownload
           /\ UNCHANGED <<csv_env, call, answer_df, phase, current_id_idx, start_time,
                          problem_start_time, graded, user_name, now>>
           /\ Fired("rerun")
           /\ halted' = FALSE

rerun_explain ==
    /\ ~halted
    /\ rerun
    /\ phase = "explain"
    /\ IF RouterStops THEN Stopped ELSE
           /\ explain_render
           /\ download' = NoDownload
           /\ UNCHANGED <<csv_env, call, answer_df, start_time,
                          problem_start_time, answers, graded, user_name,
                          widget, now>>
           /\ Fired("rerun")
           /\ halted' = FALSE

rerun_end ==
    /\ ~halted
    /\ rerun
    /\ phase = "end"
    /\ IF RouterStops THEN Stopped ELSE
           /\ render_end_state(user_name)
           /\ rerun' = FALSE
           /\ UNCHANGED <<csv_env, call, answer_df, start_time, problem_start_time, widget,
                          now>>
           /\ Fired("rerun")
           /\ halted' = FALSE

-----------------------------------------------------------------------------
\* A download button is pressed: the run renders the current screen again.

download_click ==
    /\ ~halted
    /\ ~rerun
    /\ IF RouterStops THEN Stopped ELSE
           /\ halted' = FALSE
           /\ Fired("download")
           /\ rerun' = FALSE
           /\ UNCHANGED <<csv_env, call, answer_df, phase, current_id_idx, start_time,
                          problem_start_time, graded, widget, now>>
           /\ CASE phase = "solution" ->
                      /\ answers' = RenderInputs(get_current_id, answers,
                                                 widget)
                      /\ download' = NoDownload
                      /\ UNCHANGED user_name
                [] phase = "end" ->
                      /\ user_name # <<>>
                      /\ download' = DownloadFor(user_name, now)
                      /\ UNCHANGED <<user_name, answers>>
                [] OTHER ->
                      /\ download' = NoDownload
                      /\ UNCHANGED <<user_name, answers>>

Next ==
    \/ Tick
    \/ download_click
    \/ problem_answer_entry
    \/ problem_skip
    \/ solution_edit
    \/ solution_grade
    \/ solution_back
    \/ solution_to_explain
    \/ explain_next
    \/ end_name_entry
    \/ end_restart
    \/ rerun_problem
    \/ rerun_solution
    \/ rerun_explain
    \/ rerun_end

Spec == Init /\ [][Next]_vars


-----------------------------------------------------------------------------
\* Module start-up: the CSV files found in the working directory and
\* load_answer_csv.  "KAI" and "TOU" stand for the two characters of the
\* Japanese word for "answer key" that the loader looks for in a file name.

\* Most CSV files of one directory listing that are explored.
MaxPaths == 2

\* The encodings tried, in the order of the loop.
Encodings == <<"utf-8-sig", "utf-8", "cp932", "shift-jis">>

\* File name stems, in the order in which find_files sorts them.
StemPool ==
    << <<"a", "n", "s", "w", "e", "r">>,
       <<"d", "a", "t", "a">>,
       <<"m", "y", "_", "a", "n", "s", "w", "e", "r">>,
       <<"KAI", "TOU", "1">> >>

\* A table whose only ID cell is not a digit string.
BadIdTable == { Row(0 - 1, "a", IntCell(5), NaCell, NaCell) }

\* What pd.read_csv delivers for each file when it parses.
TableOf(stem) ==
    IF stem = StemPool[1]
    THEN CHOOSE T \in RawTables : \E r \in T : r.ID = 1
    ELSE IF stem = StemPool[2] THEN BadIdTable
    ELSE IF stem = StemPool[3]
    THEN CHOOSE T \in RawTables : \E r \in T : r.ID = 7
    ELSE CHOOSE T \in RawTables : \E r \in T : r.ID = 2

\* pat in stem
Contains(stem, pat) ==
    \E i \in 1..(Len(stem) - Len(pat) + 1) :
        SubSeq(stem, i, i + Len(pat) - 1) = pat

IsPriority(stem) ==
    \/ Contains(stem, <<"KAI", "TOU">>)
    \/ Contains(stem, <<"a", "n", "s", "w", "e", "r">>)

NotPriority(stem) == ~IsPriority(stem)

\* ordered = priority + the other paths
Ordered(csv_paths) ==
    SelectSeq(csv_paths, IsPriority) \o SelectSeq(csv_paths, NotPriority)

RECURSIVE Attempts(_, _, _)
\* The (encoding, path) pairs in the order the two nested loops try them:
\* the encodings from the e-th on, each over all paths.
Attempts(ordered, e, i) ==
    IF e > Len(Encodings) THEN <<>>
    ELSE IF i > Len(ordered) THEN Attempts(ordered, e + 1, 1)
    ELSE <<[enc |-> Encodings[e], path |-> ordered[i]]>>
            \o Attempts(ordered, e, i + 1)

\* The loader's "no usable file".
NoneDf == [found |-> FALSE, enc |-> "", path |-> <<>>]

Loaded(a) == [found |-> TRUE, enc |-> a.enc, path |-> a.path]

RECURSIVE FirstParsing_stop_at_failure(_, _)
\* A loop that returns None at the first attempt that raises.
FirstParsing_stop_at_failure(attempts, parses) ==
    IF attempts = <<>> THEN NoneDf
    ELSE IF <<Head(attempts).path, Head(attempts).enc>> \in parses
         THEN Loaded(Head(attempts))
    ELSE NoneDf

RECURSIVE FirstParsing(_, _)
\* try / except Exception: continue -- the first attempt that parses is
\* returned, a failing one is skipped.
FirstParsing(attempts, parses) ==
    IF attempts = <<>> THEN NoneDf
    ELSE IF <<Head(attempts).path, Head(attempts).enc>> \in parses
         THEN Loaded(Head(attempts))
    ELSE FirstParsing(Tail(attempts), parses)

load_answer_csv(csv_paths, parses) ==
    FirstParsing(Attempts(Ordered(csv_paths), 1, 1), parses)

\* The listings explored: the stems of StemPool at a set of positions.
RECURSIVE Listing(_, _)
Listing(S, i) ==
    IF i > Len(StemPool) THEN <<>>
    ELSE IF i \in S THEN <<StemPool[i]>> \o Listing(S, i + 1)
    ELSE Listing(S, i + 1)

Range(seq) == { seq[i] : i \in DOMAIN seq }

EncodingSet == Range(Encodings)

\* Values of the session variables while no session state exists.
NoSession ==
    /\ answer_df = {}
    /\ phase = "startup"
    /\ current_id_idx = 0
    /\ now = 0
    /\ start_time = 0
    /\ problem_start_time = 0
    /\ answers = EmptyDict
    /\ graded = FALSE
    /\ user_name = <<>>
    /\ widget = EmptyDict
    /\ rerun = FALSE
    /\ event = "start"
    /\ prev_event = "start"
    /\ halted = FALSE
    /\ download = NoDownload

\* Before the script has run: no session state exists, a directory listing
\* and the set of (path, encoding) pairs that parse are given.
StartInit ==
    /\ \E S \in SUBSET (1..Len(StemPool)) :
          /\ Cardinality(S) <= MaxPaths
          /\ \E P \in SUBSET (Range(Listing(S, 1)) \X EncodingSet) :
                csv_env = [paths |-> Listing(S, 1), parses |-> P]
    /\ call = NoCall
    /\ NoSession

\* The script's first run down to the session defaults: the loader is
\* called; without a table, or without a digit ID in it, st.stop() ends
\* the run before any session state is set.
module_startup ==
    /\ phase = "startup"
    /\ ~halted
    /\ LET res == load_answer_csv(csv_env.paths, csv_env.parses)
           df == NormalizeDf(TableOf(res.path))
       IN /\ call' = [fn |-> "load_answer_csv", arg |-> 0, out |-> res]
          /\ IF ~res.found
             THEN /\ halted' = TRUE
                  /\ UNCHANGED <<answer_df, phase>>
             ELSE IF { r \in df : IsDigitId(r.ID) } = {}
             THEN /\ halted' = TRUE
                  /\ answer_df' = df
                  /\ UNCHANGED phase
             ELSE /\ halted' = FALSE
                  /\ answer_df' = df
                  /\ phase' = "problem"
    /\ UNCHANGED <<csv_env, current_id_idx, start_time, problem_start_time,
                   answers, graded, user_name, widget, rerun, event,
                   prev_event, now, download>>

StartNext == module_startup

StartSpec == StartInit /\ [][StartNext]_vars

-----------------------------------------------------------------------------
\* The utility functions applied to arguments of their own.  "JI" "KAN",
\* "FUN" and "BYOU" stand for the characters of the Japanese unit words for
\* hours, minutes and seconds.

\* Largest number of seconds formatted.
MaxSeconds == 7325

\* Largest whole part of the numbers converted by as_str.
MaxWhole == 12

\* Minutes computed from all the seconds, without taking the hours out.
hms_minutes_not_reduced(sec) ==
    LET t == IF sec > 0 THEN sec ELSE 0
    IN [h |-> t \div 3600, m |-> t \div 60, s |-> t % 60]

\* The three numbers seconds_to_hms computes.
hms(sec) ==
    LET t == IF sec > 0 THEN sec ELSE 0
    IN [h |-> t \div 3600, m |-> (t % 3600) \div 60, s |-> t % 60]

seconds_to_hms(sec) ==
    LET p == hms(sec)
    IN IF p.h # 0
       THEN IntToStr(p.h) \o <<"JI", "KAN">> \o IntToStr(p.m) \o <<"FUN">>
               \o IntToStr(p.s) \o <<"BYOU">>
       ELSE IntToStr(p.m) \o <<"FUN">> \o IntToStr(p.s) \o <<"BYOU">>

\* str(x)
py_str(x) ==
    IF x.t = "float"
    THEN IntToStr(x.whole) \o <<".">> \o <<Digits[x.tenths + 1]>>
    ELSE IF x.t = "int" THEN IntToStr(x.whole)
    ELSE IF x.t = "na" THEN <<"n", "a", "n">>
    ELSE x.s

\* Values as_str is applied to.
CellArgs ==
    {NaCell}
    \cup { FloatCell(w, f) : w \in (0 - 3)..MaxWhole, f \in 0..9 }
    \cup { IntCell(n) : n \in (0 - 3)..MaxWhole }
    \cup { StrCell(t) : t \in UserInputs \cup {<<>>, <<"x">>} }

UtilInit ==
    /\ csv_env = NoFiles
    /\ call = NoCall
    /\ NoSession

\* A function is applied once, to one argument; the session is not touched.
UtilFrame ==
    UNCHANGED <<csv_env, answer_df, phase, current_id_idx, start_time,
                problem_start_time, answers, graded, user_name, widget,
                rerun, event, prev_event, now, halted, download>>

call_seconds_to_hms ==
    /\ call = NoCall
    /\ \E sec \in (0 - 2)..MaxSeconds :
          call' = [fn |-> "seconds_to_hms", arg |-> sec,
                   out |-> seconds_to_hms(sec)]
    /\ UtilFrame

call_as_str ==
    /\ call = NoCall
    /\ \E x \in CellArgs :
          call' = [fn |-> "as_str", arg |-> x, out |-> as_str(x)]
    /\ UtilFrame

\* The column normalisation applied to a table as read.
call_normalize ==
    /\ call = NoCall
    /\ \E raw \in RawTables :
          call' = [fn |-> "normalize", arg |-> raw, out |-> NormalizeDf(raw)]
    /\ UtilFrame

UtilNext ==
    \/ call_seconds_to_hms
    \/ call_as_str
    \/ call_normalize

UtilSpec == UtilInit /\ [][UtilNext]_vars

-----------------------------------------------------------------------------
\* Properties

NumIds == Len(available_ids)

CurrentKeys == { Key(r.ID, r.sub) : r \in rows_for_id(get_current_id) }

\* The step is a run of the grading button.
GradeStep ==
    /\ phase = "solution"
    /\ ~rerun
    /\ event' = "grade"
    /\ now' = now

\* C1: the session starts in Problem at index 0, and every change of phase
\* made by a run is one of the eight listed transitions, each with its
\* cause: answer entry, skip, back, explanation, next while ids remain,
\* restart, and Explain -> End only when no ids remain.
C1_Listed ==
    { <<"problem", "solution">>, <<"problem", "explain">>,
      <<"solution", "solution">>, <<"solution", "problem">>,
      <<"solution", "explain">>, <<"explain", "problem">>,
      <<"explain", "end">>, <<"end", "problem">> }

C1_Cause(p, q) ==
    CASE p = "problem" /\ q = "solution" -> event' = "answer_entry"
      [] p = "problem" /\ q = "explain" -> event' = "skip"
      [] p = "solution" /\ q = "problem" -> event' = "back"
      [] p = "solution" /\ q = "explain" -> event' = "explain"
      [] p = "explain" /\ q = "problem" -> event' = "next" /\ HasNext
      [] p = "explain" /\ q = "end" -> ~HasNext
      [] p = "end" /\ q = "problem" -> event' = "restart"
      [] OTHER -> FALSE

C2_IndexInRange ==
    /\ 0 <= current_id_idx
    /\ current_id_idx < NumIds
    /\ ~halted

\* C2 witness: the session advanced to the last of several ids.
C2_Witness ==
    NumIds >= 2 /\ current_id_idx = NumIds - 1 /\ phase = "problem"

\* C3: grading gives every row of the current id the verdict Correct
\* exactly when the stripped text of its input field equals the stripped
\* canonical answer; with the answers 5 and 10 the inputs "5" and "11"
\* grade Correct and Incorrect, and against the float 3.0 (canonical "3")
\* the input "3" grades Correct and "3.0" Incorrect.
C3_Scenarios ==
    event = "grade" =>
        /\ <<1, "a">> \in DOMAIN answers =>
              /\ answers[<<1, "a">>].correct = <<"5">>
              /\ answers[<<1, "b">>].correct = <<"1", "0">>
              /\ answers[<<1, "a">>].inp = <<"5">>
                    => answers[<<1, "a">>].verdict = Correct
              /\ answers[<<1, "b">>].inp = <<"1", "1">>
                    => answers[<<1, "b">>].verdict = Incorrect
        /\ (<<7, "a">> \in DOMAIN answers /\ get_current_id = 7) =>
              /\ answers[<<7, "a">>].correct = <<"3">>
              /\ answers[<<7, "a">>].inp = <<"3">>
                    => answers[<<7, "a">>].verdict = Correct
              /\ answers[<<7, "a">>].inp = <<"3", ".", "0">>
                    => answers[<<7, "a">>].verdict = Incorrect

C3_Grading ==
    /\ [][ GradeStep =>
             \A r \in rows_for_id(get_current_id) :
                /\ Key(r.ID, r.sub) \in DOMAIN answers'
                /\ answers'[Key(r.ID, r.sub)].verdict =
                      IF Strip(widget[r.sub]) = Strip(r.ans.s)
                      THEN Correct ELSE Incorrect ]_vars
    /\ []C3_Scenarios

\* C3 witness: a = "5", b = "11" were graded Correct and Incorrect.
C3_Witness ==
    /\ event = "grade"
    /\ <<1, "b">> \in DOMAIN answers
    /\ answers[<<1, "a">>].inp = <<"5">>
    /\ answers[<<1, "a">>].verdict = Correct
    /\ answers[<<1, "b">>].inp = <<"1", "1">>
    /\ answers[<<1, "b">>].verdict = Incorrect

\* C4: the Explain screen of the last id is left only by a run that the
\* "next" request started.
C4_LastExplainWaitsForNext ==
    [][ (phase = "explain" /\ ~HasNext /\ phase' # "explain")
            => event' = "next" ]_vars

\* C5: from Explain on the last id the phase can only become End, the
\* index stays at the last id and the router does not stop.
C5_LastExplainToEnd ==
    [][ (phase = "explain" /\ current_id_idx = NumIds - 1) =>
            /\ phase' \in {"explain", "end"}
            /\ current_id_idx' = current_id_idx
            /\ ~halted' ]_vars

\* C5 witness: End was just entered from the Explain screen of the last id.
C5_Witness ==
    phase = "end" /\ rerun /\ current_id_idx = NumIds - 1

\* C6: in End every run but restart keeps the phase, the index, the
\* answers and graded; restart gives the session defaults with both start
\* times at the time of the restart.
C6_EndAndRestart ==
    [][ phase = "end" =>
           IF event' = "restart"
           THEN /\ phase' = "problem"
                /\ current_id_idx' = 0
                /\ answers' = EmptyDict
                /\ graded' = FALSE
                /\ user_name' = <<>>
                /\ start_time' = now
                /\ problem_start_time' = now
                /\ now' = now
           ELSE /\ phase' = "end"
                /\ UNCHANGED <<current_id_idx, answers, graded>> ]_vars

\* C6 witness: a restart after time has passed and a name was typed.
C6_Witness ==
    event = "restart" /\ prev_event = "name" /\ start_time > 0

\* C7 as stated: a Solution screen that was just entered from Problem, and
\* on which nothing was graded since, has graded = false.
C7_GradedClearedOnReturn ==
    (phase = "solution" /\ event \in {"answer_entry", "rerun"}) => ~graded

\* C7 amended: graded becomes true only by a grading run on the Solution
\* screen and becomes false only by the advance to the next id or by
\* restart; back, answer entry, skip and explanation keep it.
C7_GradedChanges ==
    [][ graded' # graded =>
           \/ graded' /\ GradeStep /\ phase' = "solution"
           \/ ~graded' /\ event' \in {"next", "restart"} ]_vars

\* C7 witness: back on a graded Solution screen, then answer entry again.
C7_Witness ==
    phase = "solution" /\ event = "answer_entry" /\ prev_event = "rerun"
        /\ graded

\* C8 as stated: only the advance changes problem_start_time.
C8_OnlyAdvanceResetsTimer ==
    [][ problem_start_time' # problem_start_time => event' = "next" ]_vars

\* C8 amended: problem_start_time changes only in the advance and in
\* restart, both set it to the current time, and every advance sets it.
C8_TimerResets ==
    [][ /\ problem_start_time' # problem_start_time =>
              /\ event' \in {"next", "restart"}
              /\ problem_start_time' = now'
        /\ current_id_idx' = current_id_idx + 1 =>
              /\ event' = "next"
              /\ problem_start_time' = now' ]_vars

\* C8 witness: an advance made after time has passed.
C8_Witness ==
    event = "next" /\ problem_start_time > start_time

\* C9: the result download is offered exactly when the phase is End and
\* the name is not empty, and its file name starts with the name.
C9_DownloadIffName ==
    /\ (download # NoDownload) <=> (phase = "end" /\ user_name # <<>>)
    /\ download # NoDownload =>
          /\ Len(download) > Len(user_name)
          /\ SubSeq(download, 1, Len(user_name)) = user_name

\* C9 witness: a name was typed on the result screen.
C9_Witness ==
    phase = "end" /\ event = "name" /\ user_name = <<"B", "c">>
        /\ download # NoDownload

NonTime(rec) == <<rec.inp, rec.correct, rec.verdict, rec.level, rec.title>>

\* C10: a grading run directly after a grading run, or after one re-render
\* in between, leaves every record of the current id as the first grading
\* left it, except for the two elapsed-time fields; the record a grading
\* leaves holds the stripped input.
C10_AfterGrading ==
    event = "grade" =>
        \A k \in CurrentKeys :
            /\ k \in DOMAIN answers
            /\ DOMAIN answers[k] = {"inp", "correct", "verdict", "per_sec",
                                    "total_sec", "level", "title"}
            /\ answers[k].inp = Strip(answers[k].inp)

C10_GradingIdempotent ==
    /\ []C10_AfterGrading
    /\ [][ (/\ GradeStep
            /\ \/ event = "grade"
               \/ event = "download" /\ prev_event = "grade")
           => \A k \in CurrentKeys :
                 /\ NonTime(answers'[k]) =
                       <<Strip(answers[k].inp), answers[k].correct,
                         answers[k].verdict, answers[k].level,
                         answers[k].title>>
                 /\ event = "grade" =>
                       NonTime(answers'[k]) = NonTime(answers[k]) ]_vars

\* C10 witness: an input with blanks around it was graded twice in
\* succession, the second time after time had passed.
C10_Witness ==
    /\ event = "grade"
    /\ prev_event = "grade"
    /\ get_current_id = 9
    /\ <<9, "a">> \in DOMAIN answers
    /\ widget["a"] = <<" ", "5", " ">>
    /\ answers[<<9, "a">>].verdict = Correct
    /\ answers[<<9, "a">>].total_sec > 0

\* C11: the loader returns None exactly when no (path, encoding) pair
\* parses, so failing pairs before a parsing one are skipped; after None
\* the script is stopped and no quiz phase was set up.
C11_NoneIffAllFail ==
    call.fn = "load_answer_csv" =>
        /\ call.out = NoneDf <=>
              \A p \in Range(csv_env.paths) : \A e \in EncodingSet :
                  <<p, e>> \notin csv_env.parses
        /\ ~call.out.found => halted /\ phase = "startup"
        /\ call.out.found =>
              /\ call.out.path \in Range(csv_env.paths)
              /\ <<call.out.path, call.out.enc>> \in csv_env.parses

\* C11 witness: two files, nothing parses under the first two encodings,
\* and the table was loaded under cp932.
C11_Witness ==
    /\ call.fn = "load_answer_csv"
    /\ Len(csv_env.paths) = 2
    /\ call.out.found
    /\ call.out.enc = "cp932"

\* C20: when some priority-named path parses under some encoding, the
\* table returned comes from a priority-named path.
C20_PriorityWins ==
    (/\ call.fn = "load_answer_csv"
     /\ \E p \in Range(csv_env.paths) : \E e \in EncodingSet :
           IsPriority(p) /\ <<p, e>> \in csv_env.parses)
    => call.out.found /\ IsPriority(call.out.path)

DigitVal(c) == CHOOSE i \in 0..9 : Digits[i + 1] = c

RECURSIVE StrToInt(_)
\* The number a text of digits denotes.
StrToInt(t) ==
    IF t = <<>> THEN 0
    ELSE StrToInt(SubSeq(t, 1, Len(t) - 1)) * 10 + DigitVal(t[Len(t)])

IndexOf(t, c) == CHOOSE i \in 1..Len(t) : t[i] = c

HasHourSegment(t) == \E i \in 1..Len(t) : t[i] = "JI"

\* The numbers read back from a formatted duration.
ReadHms(t) ==
    LET from == IF HasHourSegment(t) THEN IndexOf(t, "KAN") + 1 ELSE 1
    IN [h |-> IF HasHourSegment(t)
              THEN StrToInt(SubSeq(t, 1, IndexOf(t, "JI") - 1)) ELSE 0,
        m |-> StrToInt(SubSeq(t, from, IndexOf(t, "FUN") - 1)),
        s |-> StrToInt(SubSeq(t, IndexOf(t, "FUN") + 1,
                              IndexOf(t, "BYOU") - 1))]

\* C12: for s >= 0 the text of seconds_to_hms(s) shows h = s div 3600,
\* m = (s mod 3600) div 60 and r = s mod 60, with m < 60, r < 60 and
\* 3600 h + 60 m + r = s, and has an hour segment exactly when s >= 3600;
\* a negative argument is shown as 0 minutes 0 seconds.
C12_HmsRendering ==
    call.fn = "seconds_to_hms" =>
        LET r == ReadHms(call.out)
        IN /\ call.out[Len(call.out)] = "BYOU"
           /\ call.arg >= 0 =>
                 /\ r.h = call.arg \div 3600
                 /\ r.m = (call.arg % 3600) \div 60
                 /\ r.s = call.arg % 60
                 /\ r.m < 60
                 /\ r.s < 60
                 /\ 3600 * r.h + 60 * r.m + r.s = call.arg
                 /\ HasHourSegment(call.out) <=> call.arg >= 3600
           /\ call.arg < 0 => call.out = <<"0", "FUN", "0", "BYOU">>

\* C12 witness: 7325 seconds are shown as 2 hours 2 minutes 5 seconds.
C12_Witness ==
    /\ call.fn = "seconds_to_hms"
    /\ call.arg = 7325
    /\ call.out = <<"2", "JI", "KAN", "2", "FUN", "5", "BYOU">>

\* C13: as_str gives the empty text for a missing value, the decimal text
\* of the integer value, without ".0", for a float with zero fractional
\* part (as_str(3.0) = "3"), and str(x) for every other value; the column
\* normalisation leaves as_str of the answer in every row.
C13_AsStr ==
    /\ call.fn = "as_str" =>
          /\ call.arg.t = "na" => call.out = <<>>
          /\ (call.arg.t = "float" /\ call.arg.tenths = 0) =>
                /\ call.out = IntToStr(call.arg.whole)
                /\ \A i \in 1..Len(call.out) : call.out[i] # "."
                /\ call.arg.whole >= 0 => StrToInt(call.out) = call.arg.whole
          /\ call.arg = FloatCell(3, 0) => call.out = <<"3">>
          /\ (call.arg.t # "na"
                /\ ~(call.arg.t = "float" /\ call.arg.tenths = 0)) =>
                call.out = py_str(call.arg)
    /\ call.fn = "normalize" =>
          /\ \A r \in call.out : r.ans.t = "str"
          /\ \A q \in call.arg :
                \E r \in call.out :
                   /\ r.ID = q.ID /\ r.sub = q.sub
                   /\ r.level = q.level /\ r.title = q.title
                   /\ q.ans = FloatCell(3, 0) => r.ans.s = <<"3">>
                   /\ q.ans.t = "na" => r.ans.s = <<>>
                   /\ q.ans = FloatCell(2, 5) => r.ans.s = <<"2", ".", "5">>

\* C13 witness: as_str was applied to the float 3.0.
C13_Witness ==
    call.fn = "as_str" /\ call.arg = FloatCell(3, 0) /\ call.out = <<"3">>

HasVerdict(rec) == "verdict" \in DOMAIN rec

RecordFields ==
    {"inp", "correct", "verdict", "per_sec", "total_sec", "level", "title"}

\* The step is a run of the "next problem" button.
AdvanceStep ==
    /\ phase = "explain"
    /\ ~rerun
    /\ event' = "next"
    /\ now' = now

\* C14: a grading run sets graded, leaves a full record for every
\* sub-question of the current id, and changes nothing else: the phase
\* stays Solution, the index, both start times and the name are kept, and
\* the records of all other ids are as before.
C14_GradingFrame ==
    [][ GradeStep =>
          /\ graded'
          /\ phase' = "solution"
          /\ UNCHANGED <<current_id_idx, start_time, problem_start_time,
                         user_name, answer_df>>
          /\ \A k \in CurrentKeys :
                /\ k \in DOMAIN answers'
                /\ DOMAIN answers'[k] = RecordFields
          /\ \A k \in (DOMAIN answers') \ CurrentKeys :
                /\ k \in DOMAIN answers
                /\ answers'[k] = answers[k] ]_vars

\* C14 witness: the second id was graded while the first id's graded
\* record is still there.
C14_Witness ==
    /\ event = "grade"
    /\ get_current_id = 9
    /\ <<7, "a">> \in DOMAIN answers
    /\ HasVerdict(answers[<<7, "a">>])
    /\ HasVerdict(answers[<<9, "a">>])
    /\ graded

\* C15: the index changes only in the advance, which adds exactly 1, sets
\* the phase to Problem, clears graded and keeps the answers, or in
\* restart, which sets it to 0; without a restart it never decreases.
C15_IndexChanges ==
    [][ /\ AdvanceStep =>
              /\ current_id_idx' = current_id_idx + 1
              /\ phase' = "problem"
              /\ graded' = FALSE
              /\ answers' = answers
        /\ current_id_idx' # current_id_idx =>
              \/ AdvanceStep
              \/ event' = "restart" /\ phase = "end" /\ current_id_idx' = 0
        /\ ~(event' = "restart" /\ phase = "end") =>
              current_id_idx' >= current_id_idx ]_vars

\* C15 witness: the advance was made from a graded problem.
C15_Witness ==
    /\ event = "next"
    /\ current_id_idx = 1
    /\ phase = "problem"
    /\ ~graded
    /\ \E k \in DOMAIN answers : HasVerdict(answers[k])

\* The step is the run that first renders the Solution screen after the
\* phase changed to it.
RenderSolutionStep ==
    /\ phase = "solution"
    /\ rerun
    /\ event' = "rerun"
    /\ now' = now

\* C16: records are created, with the input only, by the first run that
\* renders the Solution screen of their problem; a record that exists stays
\* in answers through every run but restart, which removes all of them; a
\* problem whose Solution screen was never rendered has no record.
C16_RecordLifetime ==
    [][ /\ ~(event' = "restart" /\ phase = "end") =>
              DOMAIN answers \subseteq DOMAIN answers'
        /\ (event' = "restart" /\ phase = "end") => answers' = EmptyDict
        /\ ~(DOMAIN answers' \subseteq DOMAIN answers) =>
              /\ RenderSolutionStep
              /\ DOMAIN answers' = (DOMAIN answers) \cup CurrentKeys
              /\ \A k \in (DOMAIN answers') \ DOMAIN answers :
                    answers'[k] = [inp |-> <<>>]
        /\ RenderSolutionStep => CurrentKeys \subseteq DOMAIN answers' ]_vars

\* C16 witness: the first problem was skipped and has no record, the
\* second was answered, and its record is still there on the result screen
\* after a name was typed.
C16_Witness ==
    /\ phase = "end"
    /\ event = "name"
    /\ DOMAIN answers = {<<9, "a">>}

\* C17: every record with a verdict has the verdict Correct exactly when
\* its stored input, stripped, equals its stored correct answer.
C17_VerdictConsistent ==
    \A k \in DOMAIN answers :
        HasVerdict(answers[k]) =>
            (answers[k].verdict = Correct
                <=> Strip(answers[k].inp) = answers[k].correct)

\* C18: while graded is true every sub-question of the current problem has
\* a record with the verdict Correct or Incorrect.
C18_GradedHasVerdicts ==
    graded =>
        \A k \in CurrentKeys :
            /\ k \in DOMAIN answers
            /\ HasVerdict(answers[k])
            /\ answers[k].verdict \in {Correct, Incorrect}

\* C18 witness: an input was edited on a graded Solution screen.
C18_Witness ==
    graded /\ phase = "solution" /\ event = "edit" /\ prev_event = "grade"

\* C19: start_time <= problem_start_time always; every graded record has
\* 0 <= per_sec <= total_sec; a grading run stores the time since
\* problem_start_time and since start_time; the time fields of a record
\* change only in a grading run of its problem.
C19_TimesInvariant ==
    /\ start_time <= problem_start_time
    /\ problem_start_time <= now
    /\ \A k \in DOMAIN answers :
          HasVerdict(answers[k]) =>
              /\ 0 <= answers[k].per_sec
              /\ answers[k].per_sec <= answers[k].total_sec

C19_ElapsedTimes ==
    /\ []C19_TimesInvariant
    /\ [][ /\ GradeStep =>
                \A k \in CurrentKeys :
                   /\ answers'[k].per_sec = now - problem_start_time
                   /\ answers'[k].total_sec = now - start_time
           /\ \A k \in (DOMAIN answers) \cap (DOMAIN answers') :
                (/\ HasVerdict(answers[k])
                 /\ \/ ~HasVerdict(answers'[k])
                    \/ answers'[k].per_sec # answers[k].per_sec
                    \/ answers'[k].total_sec # answers[k].total_sec)
                => GradeStep /\ k \in CurrentKeys ]_vars

\* C19 witness: a problem reached by an advance was graded, so that its
\* time since the problem start is shorter than the time since the start.
C19_Witness ==
    /\ event = "grade"
    /\ \E k \in DOMAIN answers :
          /\ HasVerdict(answers[k])
          /\ answers[k].per_sec < answers[k].total_sec

====
